---- MODULE Spec2Model ----
(***************************************************************************)
(* Model of scripts/export-transactions.py: TransactionExporter.run and    *)
(* the three steps it sequences (initiate_export, poll_for_completion,     *)
(* download_file).  The remote service, the local disk and the transport   *)
(* are the environment: every response, error and chunk sequence is chosen *)
(* nondeterministically from small sets.                                   *)
(*                                                                         *)
(* One action is one call of the environment together with everything the  *)
(* program does with its result up to the next call (or to process exit).  *)
(*                                                                         *)
(* run calls poll_for_completion with its default max_attempts (60, line   *)
(* 69); the loop is the same for every budget, so max_attempts is a        *)
(* parameter drawn from -1..MaxBudget.  An exception of the status query    *)
(* covers everything the try of line 74 can catch before a status is read: *)
(* transport error, non-success status, a body that is not JSON or not a   *)
(* dict.  os.remove is taken not to fail.                                  *)
(***************************************************************************)
EXTENDS Integers, Sequences, FiniteSets, TLC

\* ---------------------------------------------------------------- bounds
\* largest max_attempts handed to poll_for_completion
MaxBudget == 3
\* largest number of chunks iter_content delivers for one download
MaxChunks == 2

\* ------------------------------------------------------- environment sets
\* Python's None (dict.get on a missing key, line 77-88, 81)
None == "None"

\* identifiers the creation endpoint may return
ExportIds == {"abc123", "x9"}

\* a response body that never arrived: the dict with no key
NoBody == [k \in {} |-> None]

\* result URLs a succeeded status may carry
Urls == {"https://x/y.zip"}

\* bodies of a 2xx creation response: with or without the exportId field
CreateBodies ==
    {[exportId |-> id] : id \in ExportIds} \cup {[message |-> "rate limited"]}

\* bodies of a 2xx status response
StatusBodies ==
    {[status |-> s] : s \in {"running", "failed", "pending"}}
        \cup {[status |-> "succeeded", url |-> u] : u \in Urls}
        \cup {[status |-> "succeeded"]}
        \cup {[detail |-> "no status"]}

\* entry of the query log for a status query that raised instead of returning
QueryRaised == [raised |-> "RequestException"]

\* chunks of a streamed body; the empty chunk is a keep-alive chunk
Chunks == {<<>>, <<1>>, <<2>>}

ChunkSeqs == UNION {[1..n -> Chunks] : n \in 0..MaxChunks}

\* content of a file that is on disk before the run starts
OldData == <<0>>

\* datetime.now().isoformat() at construction (line 20)
Nows == {"2026-11-03T14:00:00.000001", "2026-11-03T14:00:07.500000"}

\* __init__ (lines 15-21)
Exporter(now) ==
    [base_url |-> "https://cdn.routescan.io/api/evm/all/exports",
     address |-> "0x1D74317d760f2c72A94386f50E8D10f2C902b899",
     chain_id |-> "57073",
     contract_created_date |-> "2024-12-28T13:51:06.000Z",
     current_date |-> now \o "Z",
     transaction_limit |-> 63956]

\* ------------------------------------------------------------ error values
ErrCreateTransport == "RequestException: create transport"
ErrCreateHttp      == "HTTPError: create status"
ErrNoExportId      == "Failed to initiate export"
ErrStatusQuery     == "RequestException: status query"
ErrExportFailed    == "Export failed"
ErrPollTimeout     == "Export did not complete within max_attempts attempts"
ErrDownloadRequest == "RequestException: download request"
ErrDownloadStream  == "RequestException: download stream"
ErrOpen            == "OSError: open"
ErrWrite           == "OSError: write"
NoError            == "no error"

\* ------------------------------------------------------------------ state
VARIABLES
    pc,            \* position of run: "start", "poll", "download", "open",
                   \* "stream", "exited"
    max_attempts,  \* parameter of poll_for_completion
    export_id,     \* run's local export_id (line 134)
    attempt,       \* loop variable of poll_for_completion (line 73)
    download_url,  \* run's local download_url (line 137)
    log,           \* one entry per status query issued, in order
    delays,        \* number of time.sleep calls performed
    creates,       \* number of creation POSTs issued
    createBody,    \* body of the creation response, NoBody if there was none
    downloads,     \* number of download GETs issued
    requestedUrl,  \* URL the download GET was issued to
    remote,        \* chunk sequence of the download response
    pos,           \* chunks of remote consumed so far
    written,       \* file.write calls that succeeded
    disk,          \* the working directory: file name -> content
    outcome,       \* per step: "pending", "returned" or "raised"
    error,         \* exception that reached run's handler (line 147)
    reported,      \* run's handler printed the error (line 148)
    exitCode,      \* process exit status, -1 while running
    exporter,      \* the fields __init__ sets (lines 16-21)
    disk0,         \* the working directory when the run started
    createParams,  \* query parameters of the creation POST, in order
    statusIds,     \* the id in the URL of each status query, in order
    attemptErrors, \* "Error on attempt" lines printed (line 92)
    requestErrors  \* error lines printed by the handlers of the requests'
                   \* errors (lines 53, 66, 117)

vars == <<pc, max_attempts, export_id, attempt, download_url, log, delays,
          creates, createBody, downloads, requestedUrl, remote, pos, written,
          disk, outcome, error, reported, exitCode, exporter, disk0,
          createParams, statusIds, attemptErrors, requestErrors>>

pollVars   == <<attempt, download_url, log, delays, statusIds>>
fixedVars  == <<max_attempts, exporter, disk0>>
createVars == <<creates, createBody, createParams>>
printVars  == <<attemptErrors, requestErrors>>
dlVars   == <<downloads, requestedUrl, remote, pos, written, disk>>

\* ---------------------------------------------------------------- helpers
\* dict.get(key): the value, or None when the key is absent
Get(d, k) == IF k \in DOMAIN d THEN d[k] ELSE None

\* FileName without the identifier in the pattern
FileNameNoId(id) == "transactions" \o ".zip"

\* f"transactions_{export_id}.zip" (line 140)
FileName(id) == "transactions_" \o id \o ".zip"

FileNames == {FileName(id) : id \in ExportIds}

RECURSIVE Flatten(_)
\* the bytes of a chunk sequence, in order
Flatten(cs) == IF cs = <<>> THEN <<>> ELSE Head(cs) \o Flatten(Tail(cs))

\* os.remove(filename)
Remove(d, f) == [x \in (DOMAIN d) \ {f} |-> d[x]]

\* open(filename, 'wb'): create or truncate
OpenWb(d, f) == [x \in (DOMAIN d) \cup {f} |-> IF x = f THEN <<>> ELSE d[x]]

\* file.write(chunk)
WriteChunk(d, f, chunk) == [d EXCEPT ![f] = d[f] \o chunk]

\* CleanupPartial without the removal
CleanupPartialKeeps(d, f) == d

\* lines 119-120: if os.path.exists(filename): os.remove(filename)
CleanupPartial(d, f) == IF f \in DOMAIN d THEN Remove(d, f) ELSE d

\* BuildParams without the csvSeparator entry
BuildParamsNoSeparator(self) ==
    << <<"includedChainIds", self.chain_id>>,
       <<"address", self.address>>,
       <<"limit", ToString(self.transaction_limit)>>,
       <<"dateFrom", self.contract_created_date>>,
       <<"dateTo", self.current_date>> >>

\* lines 27-34: the params dict handed to requests.post, in insertion order
BuildParams(self) ==
    << <<"includedChainIds", self.chain_id>>,
       <<"address", self.address>>,
       <<"limit", ToString(self.transaction_limit)>>,
       <<"dateFrom", self.contract_created_date>>,
       <<"dateTo", self.current_date>>,
       <<"csvSeparator", ",">> >>

\* line 58: the id put into status_url
StatusTarget == export_id

\* len(range(1, max_attempts + 1)): the attempts the loop of line 73 makes
Budget == IF max_attempts > 0 THEN max_attempts ELSE 0

\* number of status queries issued
queries == Len(log)

\* ------------------------------------------------------------------- Init
Init ==
    /\ pc = "start"
    /\ max_attempts \in (-1)..MaxBudget
    /\ export_id = None
    /\ attempt = 1
    /\ download_url = None
    /\ log = <<>>
    /\ delays = 0
    /\ creates = 0
    /\ createBody = NoBody
    /\ downloads = 0
    /\ requestedUrl = None
    /\ remote = <<>>
    /\ pos = 0
    /\ written = 0
    /\ disk \in {[f \in S |-> OldData] : S \in SUBSET FileNames}
    /\ outcome = [create |-> "pending", poll |-> "pending",
                  download |-> "pending"]
    /\ error = NoError
    /\ reported = FALSE
    /\ exitCode = -1
    /\ exporter \in {Exporter(now) : now \in Nows}
    /\ disk0 = disk
    /\ createParams = <<>>
    /\ statusIds = <<>>
    /\ attemptErrors = 0
    /\ requestErrors = 0

\* ------------------------------------------------------------ run (123-149)
\* RunExcept exiting without the print of line 148
RunExceptSilent(step, e) ==
    /\ outcome' = [outcome EXCEPT ![step] = "raised"]
    /\ error' = e
    /\ reported' = reported
    /\ exitCode' = 1
    /\ pc' = "exited"

\* lines 147-149: an exception of step `step` reaches run's handler, which
\* prints it and exits with status 1
RunExcept(step, e) ==
    /\ outcome' = [outcome EXCEPT ![step] = "raised"]
    /\ error' = e
    /\ reported' = TRUE
    /\ exitCode' = 1
    /\ pc' = "exited"

\* lines 143-145 and the normal end of the script: exit status 0
RunCompletes ==
    /\ outcome' = [outcome EXCEPT !["download"] = "returned"]
    /\ exitCode' = 0
    /\ pc' = "exited"
    /\ UNCHANGED <<error, reported>>

\* ------------------------------------------------ initiate_export (23-54)
\* InitiateExportReturns returning the key instead of data["exportId"]
InitiateExportReturnsKey ==
    /\ pc = "start"
    /\ \E body \in CreateBodies :
        /\ "exportId" \in DOMAIN body
        /\ createBody' = body
        /\ export_id' = "exportId"
    /\ creates' = creates + 1
    /\ createParams' = BuildParams(exporter)
    /\ outcome' = [outcome EXCEPT !["create"] = "returned"]
    /\ pc' = "poll"
    /\ UNCHANGED <<fixedVars, printVars, pollVars, dlVars, error, reported,
                   exitCode>>

\* the POST returns 2xx with a body holding exportId: run goes on to poll
InitiateExportReturns ==
    /\ pc = "start"
    /\ \E body \in CreateBodies :
        /\ "exportId" \in DOMAIN body
        /\ createBody' = body
        /\ export_id' = body["exportId"]
    /\ creates' = creates + 1
    /\ createParams' = BuildParams(exporter)
    /\ outcome' = [outcome EXCEPT !["create"] = "returned"]
    /\ pc' = "poll"
    /\ UNCHANGED <<fixedVars, printVars, pollVars, dlVars, error, reported,
                   exitCode>>

\* InitiateExportRaises returning data.get("exportId") instead of raising
InitiateExportRaisesSwallowed ==
    /\ pc = "start"
    /\ creates' = creates + 1
    /\ createParams' = BuildParams(exporter)
    /\ \E body \in CreateBodies \cup {NoBody} :
        /\ "exportId" \notin DOMAIN body
        /\ createBody' = body
        /\ export_id' = Get(body, "exportId")
    /\ outcome' = [outcome EXCEPT !["create"] = "returned"]
    /\ pc' = "poll"
    /\ UNCHANGED <<fixedVars, printVars, pollVars, dlVars, error, reported,
                   exitCode>>

\* the POST raises, raise_for_status raises, or the body has no exportId
InitiateExportRaises ==
    /\ pc = "start"
    /\ creates' = creates + 1
    /\ createParams' = BuildParams(exporter)
    /\ \/ /\ createBody' = NoBody
          /\ \E e \in {ErrCreateTransport, ErrCreateHttp} :
                RunExcept("create", e)
          /\ requestErrors' = requestErrors + 1
       \/ /\ \E body \in CreateBodies :
               /\ "exportId" \notin DOMAIN body
               /\ createBody' = body
          /\ RunExcept("create", ErrNoExportId)
          /\ UNCHANGED requestErrors
    /\ UNCHANGED <<fixedVars, attemptErrors, export_id, pollVars, dlVars>>

\* ------------------------------------------- poll_for_completion (69-97)
\* time.sleep(interval_seconds)
Sleep == delays' = delays + 1

\* NextAttempt with the loop written range(1, max_attempts)
NextAttemptShortRange ==
    IF attempt < max_attempts - 1
    THEN /\ attempt' = attempt + 1
         /\ UNCHANGED <<pc, outcome, error, reported, exitCode>>
    ELSE /\ attempt' = attempt
         /\ RunExcept("poll", ErrPollTimeout)

\* NextAttempt starting over instead of giving up when the range is used up
NextAttemptStartsOver ==
    /\ attempt' = IF attempt < max_attempts THEN attempt + 1 ELSE 1
    /\ UNCHANGED <<pc, outcome, error, reported, exitCode>>

\* end of one loop iteration that did not return or raise: the next value of
\* range(1, max_attempts + 1), or line 97 when the range is used up
NextAttempt ==
    IF attempt < max_attempts
    THEN /\ attempt' = attempt + 1
         /\ UNCHANGED <<pc, outcome, error, reported, exitCode>>
    ELSE /\ attempt' = attempt
         /\ RunExcept("poll", ErrPollTimeout)

\* PollExcept without the re-raise of lines 93-94
PollExceptNoReraise(e) ==
    /\ attemptErrors' = attemptErrors + 1
    /\ Sleep
    /\ NextAttempt

\* PollExcept retrying without consuming the attempt
PollExceptNoConsume(e) ==
    /\ attemptErrors' = attemptErrors + 1
    /\ Sleep
    /\ UNCHANGED <<attempt, pc, outcome, error, reported, exitCode>>

\* lines 91-95: the handler of the loop body's try
PollExcept(e) ==
    /\ attemptErrors' = attemptErrors + 1
    /\ IF attempt = max_attempts
       THEN /\ RunExcept("poll", e)
            /\ UNCHANGED <<attempt, delays>>
       ELSE /\ Sleep
            /\ NextAttempt

\* the guard of one loop iteration
InLoop == pc = "poll" /\ attempt <= max_attempts

\* PollSucceeded with a sleep before the return
PollSucceededSleeps ==
    /\ InLoop
    /\ \E body \in StatusBodies :
        /\ Get(body, "status") = "succeeded"
        /\ log' = Append(log, body)
        /\ statusIds' = Append(statusIds, StatusTarget)
        /\ download_url' = Get(body, "url")
    /\ Sleep
    /\ outcome' = [outcome EXCEPT !["poll"] = "returned"]
    /\ pc' = "download"
    /\ UNCHANGED <<fixedVars, printVars, export_id, attempt, createVars,
                   dlVars, error, reported, exitCode>>

\* PollSucceeded going on polling when the succeeded answer has no url
PollSucceededNeedsUrl ==
    /\ InLoop
    /\ \E body \in StatusBodies :
        /\ Get(body, "status") = "succeeded"
        /\ log' = Append(log, body)
        /\ statusIds' = Append(statusIds, StatusTarget)
        /\ IF "url" \in DOMAIN body
           THEN /\ download_url' = Get(body, "url")
                /\ outcome' = [outcome EXCEPT !["poll"] = "returned"]
                /\ pc' = "download"
                /\ UNCHANGED <<attempt, delays, error, reported, exitCode>>
           ELSE /\ download_url' = download_url
                /\ Sleep
                /\ NextAttempt
    /\ UNCHANGED <<fixedVars, printVars, export_id, createVars, dlVars>>

\* line 79-81: status is succeeded, return status.get("url")
PollSucceeded ==
    /\ InLoop
    /\ \E body \in StatusBodies :
        /\ Get(body, "status") = "succeeded"
        /\ log' = Append(log, body)
        /\ statusIds' = Append(statusIds, StatusTarget)
        /\ download_url' = Get(body, "url")
    /\ outcome' = [outcome EXCEPT !["poll"] = "returned"]
    /\ pc' = "download"
    /\ UNCHANGED <<fixedVars, printVars, export_id, attempt, delays,
                   createVars, dlVars, error, reported, exitCode>>

\* line 82-83: status is failed, raise Exception("Export failed") inside the
\* try of line 74, so the handler of lines 91-95 receives it
PollFailed ==
    /\ InLoop
    /\ \E body \in StatusBodies :
        /\ Get(body, "status") = "failed"
        /\ log' = Append(log, body)
        /\ statusIds' = Append(statusIds, StatusTarget)
    /\ PollExcept(ErrExportFailed)
    /\ UNCHANGED <<fixedVars, requestErrors, export_id, download_url, createVars,
                   dlVars>>

\* line 84-86: status is running
PollRunning ==
    /\ InLoop
    /\ \E body \in StatusBodies :
        /\ Get(body, "status") = "running"
        /\ log' = Append(log, body)
        /\ statusIds' = Append(statusIds, StatusTarget)
    /\ Sleep
    /\ NextAttempt
    /\ UNCHANGED <<fixedVars, printVars, export_id, download_url, createVars,
                   dlVars>>

\* PollUnknown treating an unrecognized status as terminal
PollUnknownRaises ==
    /\ InLoop
    /\ \E body \in StatusBodies :
        /\ Get(body, "status") \notin {"succeeded", "failed", "running"}
        /\ log' = Append(log, body)
        /\ statusIds' = Append(statusIds, StatusTarget)
    /\ RunExcept("poll", "Unknown status")
    /\ UNCHANGED <<fixedVars, printVars, export_id, attempt, download_url, delays,
                   createVars, dlVars>>

\* line 87-89: any other status, or no status field
PollUnknown ==
    /\ InLoop
    /\ \E body \in StatusBodies :
        /\ Get(body, "status") \notin {"succeeded", "failed", "running"}
        /\ log' = Append(log, body)
        /\ statusIds' = Append(statusIds, StatusTarget)
    /\ Sleep
    /\ NextAttempt
    /\ UNCHANGED <<fixedVars, printVars, export_id, download_url, createVars,
                   dlVars>>

\* check_export_status raises (lines 65-67), caught at line 91
PollQueryError ==
    /\ InLoop
    /\ log' = Append(log, QueryRaised)
    /\ statusIds' = Append(statusIds, StatusTarget)
    /\ requestErrors' = requestErrors + 1
    /\ PollExcept(ErrStatusQuery)
    /\ UNCHANGED <<fixedVars, export_id, download_url, createVars,
                   dlVars>>

\* PollEmptyBudget making one attempt before the budget is looked at
PollEmptyBudgetQueriesOnce ==
    /\ pc = "poll"
    /\ max_attempts < 1
    /\ log' = Append(log, QueryRaised)
    /\ statusIds' = Append(statusIds, StatusTarget)
    /\ Sleep
    /\ RunExcept("poll", ErrPollTimeout)
    /\ UNCHANGED <<fixedVars, printVars, export_id, attempt, download_url,
                   createVars, dlVars>>

\* range(1, max_attempts + 1) is empty: line 97 at once
PollEmptyBudget ==
    /\ pc = "poll"
    /\ max_attempts < 1
    /\ RunExcept("poll", ErrPollTimeout)
    /\ UNCHANGED <<fixedVars, printVars, export_id, pollVars, createVars,
                   dlVars>>

\* ------------------------------------------------- download_file (99-121)
\* DownloadExcept removing the file only when this call has written to it
DownloadExceptIfWritten(e) ==
    /\ requestErrors' = requestErrors + 1
    /\ disk' = IF written >= 1
               THEN CleanupPartial(disk, FileName(export_id))
               ELSE disk
    /\ RunExcept("download", e)

\* lines 116-121: handler of requests' errors: clean up, re-raise
DownloadExcept(e) ==
    /\ requestErrors' = requestErrors + 1
    /\ disk' = CleanupPartial(disk, FileName(export_id))
    /\ RunExcept("download", e)

\* lines 105-106 succeed: the response is open, its body not yet read
DownloadRequestOk ==
    /\ pc = "download"
    /\ download_url \in Urls
    /\ downloads' = downloads + 1
    /\ requestedUrl' = download_url
    /\ \E cs \in ChunkSeqs : remote' = cs
    /\ pc' = "open"
    /\ UNCHANGED <<fixedVars, printVars, export_id, pollVars, createVars,
                   pos, written, disk, outcome, error, reported, exitCode>>

\* requests.get raises (no URL, transport) or raise_for_status raises
DownloadRequestRaises ==
    /\ pc = "download"
    /\ downloads' = downloads + 1
    /\ requestedUrl' = download_url
    /\ DownloadExcept(ErrDownloadRequest)
    /\ UNCHANGED <<fixedVars, attemptErrors, export_id, pollVars, createVars,
                   remote, pos, written>>

\* line 108: open(filename, 'wb') succeeds
OpenFileOk ==
    /\ pc = "open"
    /\ disk' = OpenWb(disk, FileName(export_id))
    /\ pc' = "stream"
    /\ UNCHANGED <<fixedVars, printVars, export_id, pollVars, createVars,
                   downloads, requestedUrl, remote, pos, written, outcome,
                   error, reported, exitCode>>

\* line 108: open raises OSError, which line 116 does not catch
OpenFileRaises ==
    /\ pc = "open"
    /\ RunExcept("download", ErrOpen)
    /\ UNCHANGED <<fixedVars, printVars, export_id, pollVars, createVars,
                   dlVars>>

\* lines 109-111: a non-empty chunk arrives and is written
StreamChunkWritten ==
    /\ pc = "stream"
    /\ pos < Len(remote)
    /\ remote[pos + 1] # <<>>
    /\ disk' = WriteChunk(disk, FileName(export_id), remote[pos + 1])
    /\ pos' = pos + 1
    /\ written' = written + 1
    /\ UNCHANGED <<pc, fixedVars, printVars, export_id, pollVars, createVars,
                   downloads, requestedUrl, remote, outcome, error, reported,
                   exitCode>>

\* line 110: an empty chunk is skipped
StreamChunkSkipped ==
    /\ pc = "stream"
    /\ pos < Len(remote)
    /\ remote[pos + 1] = <<>>
    /\ pos' = pos + 1
    /\ UNCHANGED <<pc, fixedVars, printVars, export_id, pollVars, createVars,
                   downloads, requestedUrl, remote, written, disk, outcome,
                   error, reported, exitCode>>

\* line 111: file.write raises OSError, which line 116 does not catch; the
\* with block closes the file and what was written stays
StreamWriteRaises ==
    /\ pc = "stream"
    /\ pos < Len(remote)
    /\ remote[pos + 1] # <<>>
    /\ RunExcept("download", ErrWrite)
    /\ UNCHANGED <<fixedVars, printVars, export_id, pollVars, createVars,
                   dlVars>>

\* line 109: iter_content raises a requests error before the body is complete
StreamTransportRaises ==
    /\ pc = "stream"
    /\ pos < Len(remote)
    /\ DownloadExcept(ErrDownloadStream)
    /\ UNCHANGED <<fixedVars, attemptErrors, export_id, pollVars, createVars,
                   downloads, requestedUrl, remote, pos, written>>

\* lines 113-114: the body is complete, download_file returns; run finishes
StreamEnd ==
    /\ pc = "stream"
    /\ pos = Len(remote)
    /\ RunCompletes
    /\ UNCHANGED <<fixedVars, printVars, export_id, pollVars, createVars,
                   dlVars>>

\* ------------------------------------------------------------------- Spec
Next ==
    \/ InitiateExportReturns
    \/ InitiateExportRaises
    \/ PollSucceeded
    \/ PollQueryError
    \/ PollFailed
    \/ PollRunning
    \/ PollUnknown
    \/ PollEmptyBudget
    \/ DownloadRequestOk
    \/ DownloadRequestRaises
    \/ OpenFileOk
    \/ OpenFileRaises
    \/ StreamChunkWritten
    \/ StreamChunkSkipped
    \/ StreamWriteRaises
    \/ StreamTransportRaises
    \/ StreamEnd

Spec == Init /\ [][Next]_vars

\* ------------------------------------------------------------- properties
\* status reported by the k-th status query (None if it raised)
StatusAt(k) == Get(log[k], "status")

\* the k-th status query raised instead of returning a body
RaisedAt(k) == "raised" \in DOMAIN log[k]

\* C1: a status query that reports `failed` ends the polling at once: the
\* poller has raised the export-failed error, and no status query and no
\* delay follows that attempt.
C1_FailedStopsPolling ==
    \A k \in 1..Len(log) :
        StatusAt(k) = "failed" =>
            /\ queries = k
            /\ delays = k - 1
            /\ outcome["poll"] = "raised"
            /\ error = ErrExportFailed

\* C2: when the first k-1 status queries report `running` and the k-th
\* reports `succeeded` with url U, the poller has returned U after exactly k
\* queries and k-1 delays, and neither number grows afterwards.
C2_SucceededReturnsUrl ==
    \A k \in 1..Len(log) :
        (/\ StatusAt(k) = "succeeded"
         /\ \A j \in 1..(k - 1) : StatusAt(j) = "running") =>
            /\ queries = k
            /\ delays = k - 1
            /\ outcome["poll"] = "returned"
            /\ download_url = Get(log[k], "url")

C2_Witness ==
    /\ Len(log) = 3
    /\ StatusAt(1) = "running"
    /\ StatusAt(2) = "running"
    /\ StatusAt(3) = "succeeded"
    /\ download_url \in Urls
    /\ delays = 2
    /\ pc = "exited"

AllRunning == \A k \in 1..Len(log) : StatusAt(k) = "running"

\* C3: when every status query reports `running`, the poller never returns
\* a URL, never issues more than max_attempts queries, and once max_attempts
\* queries are made it has raised the poll-timeout error; it raises after
\* exactly max_attempts queries, never fewer.
C3_AllRunningTimesOut ==
    AllRunning =>
        /\ outcome["poll"] # "returned"
        /\ queries <= Budget
        /\ (outcome["poll"] = "raised" =>
                error = ErrPollTimeout /\ queries = Budget)
        /\ (max_attempts >= 1 /\ queries = max_attempts =>
                outcome["poll"] = "raised" /\ error = ErrPollTimeout)

C3_Witness ==
    /\ AllRunning
    /\ max_attempts = 3
    /\ queries = 3
    /\ outcome["poll"] = "raised"
    /\ error = ErrPollTimeout
    /\ exitCode = 1

\* C4: a status query that raises on attempt k < max_attempts is retried:
\* the poller has delayed after it and stands at attempt k+1 without having
\* returned or raised; one that raises on attempt k = max_attempts ends the
\* polling with that same error, not with the poll-timeout error.
C4_QueryErrorRetriedUnlessFinal ==
    \A k \in 1..Len(log) :
        RaisedAt(k) =>
            IF k < max_attempts
            THEN /\ delays >= k
                 /\ (queries = k =>
                        /\ pc = "poll"
                        /\ attempt = k + 1
                        /\ outcome["poll"] = "pending")
            ELSE /\ queries = k
                 /\ outcome["poll"] = "raised"
                 /\ error = ErrStatusQuery

C4_Witness ==
    /\ max_attempts = 2
    /\ Len(log) = 2
    /\ RaisedAt(1)
    /\ RaisedAt(2)
    /\ delays = 1
    /\ error = ErrStatusQuery
    /\ exitCode = 1

\* the creation call was made and gave no export id: it raised, answered
\* with a non-success status, or answered without the exportId field
CreationFailed == creates = 1 /\ "exportId" \notin DOMAIN createBody

\* C5: when job creation fails, the run is over: no status query and no
\* download request has been issued, and the process has exited with 1.
C5_CreationFailureAborts ==
    CreationFailed =>
        /\ queries = 0
        /\ downloads = 0
        /\ pc = "exited"
        /\ exitCode = 1

C5_Witness ==
    /\ CreationFailed
    /\ createBody # NoBody
    /\ error = ErrNoExportId
    /\ exitCode = 1

\* C6: when the transport fails mid-stream after at least one chunk was
\* written, download_file has raised that error and no file with the
\* destination name is on disk.
C6_StreamFailureRemovesFile ==
    (error = ErrDownloadStream /\ written >= 1) =>
        /\ FileName(export_id) \notin DOMAIN disk
        /\ outcome["download"] = "raised"
        /\ exitCode = 1

C6_Witness ==
    /\ error = ErrDownloadStream
    /\ written >= 1
    /\ pos < Len(remote)
    /\ FileName(export_id) \notin DOMAIN disk
    /\ pc = "exited"

\* C7: once download_file has returned or raised, whatever the cause, the
\* destination file holds the complete remote content or does not exist.
C7_WholeOrAbsent ==
    outcome["download"] \in {"returned", "raised"} =>
        \/ FileName(export_id) \notin DOMAIN disk
        \/ disk[FileName(export_id)] = Flatten(remote)

\* C7, narrowed to a file this download_file call has written into: once the
\* call has returned or raised after one or more chunks were written, the
\* file is whole or absent.  (Violated as well: file.write raising on a later
\* chunk leaves the earlier chunks on disk.)
C7_WrittenFileWholeOrAbsent ==
    (outcome["download"] \in {"returned", "raised"} /\ written >= 1) =>
        \/ FileName(export_id) \notin DOMAIN disk
        \/ disk[FileName(export_id)] = Flatten(remote)

\* some status query of the run reported `failed`
ReportedFailure == \E k \in 1..Len(log) : StatusAt(k) = "failed"

\* some step of the run raised
StepRaised == \E s \in DOMAIN outcome : outcome[s] = "raised"

\* C8: the run exits with 0 exactly when creation, polling and download all
\* succeeded, and with 1 whenever a step failed: creation failure, poll
\* timeout, reported export failure, propagated status-query error or
\* download failure.
C8_ExitStatusReflectsFailure ==
    pc = "exited" =>
        /\ exitCode \in {0, 1}
        /\ exitCode = 0 <=>
              /\ \A s \in DOMAIN outcome : outcome[s] = "returned"
              /\ ~ReportedFailure
        /\ exitCode = 1 <=> (StepRaised \/ ReportedFailure)

\* C9: a run that exits with 0 leaves a completely written file named
\* transactions_<exportId>.zip, <exportId> being the identifier of the
\* creation response, fetched from the URL of the succeeded status.
C9_ExitZeroLeavesArtifact ==
    (pc = "exited" /\ exitCode = 0) =>
        /\ "exportId" \in DOMAIN createBody
        /\ ("transactions_" \o createBody["exportId"] \o ".zip") \in DOMAIN disk
        /\ disk["transactions_" \o createBody["exportId"] \o ".zip"]
              = Flatten(remote)
        /\ Len(log) >= 1
        /\ StatusAt(Len(log)) = "succeeded"
        /\ requestedUrl \in Urls
        /\ requestedUrl = Get(log[Len(log)], "url")

C9_Witness ==
    /\ pc = "exited"
    /\ exitCode = 0
    /\ createBody = [exportId |-> "abc123"]
    /\ Len(log) = 1
    /\ requestedUrl = "https://x/y.zip"
    /\ "transactions_abc123.zip" \in DOMAIN disk
    /\ disk["transactions_abc123.zip"] = <<1, 2>>

\* the k-th status query returned a body whose status is none of the three
\* known ones, or that has no status field
UnrecognizedAt(k) ==
    /\ ~RaisedAt(k)
    /\ StatusAt(k) \notin {"succeeded", "failed", "running"}

\* what the poller does with a `running` answer on attempt k: before the
\* last attempt it delays and stands at attempt k+1; on the last attempt it
\* delays and the budget is used up
RetriedAt(k) ==
    IF k < max_attempts
    THEN /\ delays >= k
         /\ (queries = k =>
                /\ pc = "poll"
                /\ attempt = k + 1
                /\ outcome["poll"] = "pending")
    ELSE /\ queries = k
         /\ delays = k
         /\ outcome["poll"] = "raised"
         /\ error = ErrPollTimeout
         /\ download_url = None

\* C10: a status answer that is neither succeeded, failed nor running
\* (unrecognized string or no status field) is handled as a running answer
\* is: one delay, one attempt consumed, retry; no URL is returned and no
\* error is raised for that answer.
C10_UnknownHandledAsRunning ==
    \A k \in 1..Len(log) :
        /\ UnrecognizedAt(k) => RetriedAt(k)
        /\ StatusAt(k) = "running" => RetriedAt(k)

C10_Witness ==
    /\ Len(log) = 3
    /\ StatusAt(1) = "pending"
    /\ UnrecognizedAt(2)
    /\ "status" \notin DOMAIN log[2]
    /\ StatusAt(3) = "succeeded"
    /\ delays = 2

\* C11: the run is strictly linear.  A status query is issued only after the
\* creation call returned an export id, and every status query carries that
\* id; the download request is issued only after a status query reported
\* succeeded and goes to the URL of that answer; once the download has
\* started, no creation call and no status query is issued.
C11_LinearControlFlow ==
    /\ [](/\ (queries >= 1 =>
                /\ outcome["create"] = "returned"
                /\ "exportId" \in DOMAIN createBody)
          /\ Len(statusIds) = queries
          /\ \A k \in 1..Len(statusIds) :
                statusIds[k] = Get(createBody, "exportId")
          /\ (downloads >= 1 =>
                /\ queries >= 1
                /\ StatusAt(queries) = "succeeded"
                /\ requestedUrl = Get(log[queries], "url")))
    /\ [][log' # log => creates = 1 /\ creates' = creates /\ downloads' = 0]_vars
    /\ [][downloads >= 1 => creates' = creates /\ log' = log]_vars

C11_Witness ==
    /\ pc = "exited"
    /\ exitCode = 0
    /\ queries = 2
    /\ statusIds = <<"x9", "x9">>
    /\ downloads = 1
    /\ requestedUrl \in Urls

\* the six query parameters the creation request must carry
RequiredParams ==
    {"includedChainIds", "address", "limit", "dateFrom", "dateTo",
     "csvSeparator"}

\* positions of the creation request's query string that carry `key`
ParamsNamed(key) == {i \in 1..Len(createParams) : createParams[i][1] = key}

\* the value each parameter must have, from the fields set at construction
ExpectedParam ==
    [includedChainIds |-> exporter.chain_id,
     address          |-> exporter.address,
     limit            |-> "63956",
     dateFrom         |-> exporter.contract_created_date,
     dateTo           |-> exporter.current_date,
     csvSeparator     |-> ","]

\* C12: the creation request carries each of the six required query
\* parameters exactly once, with the value fixed at construction; none is
\* missing and none is duplicated.
C12_CreateRequestParams ==
    creates >= 1 =>
        \A key \in RequiredParams :
            /\ Cardinality(ParamsNamed(key)) = 1
            /\ \A i \in ParamsNamed(key) : createParams[i][2] = ExpectedParam[key]

C12_Witness ==
    /\ creates = 1
    /\ Len(createParams) = 6
    /\ createParams[3] = <<"limit", "63956">>
    /\ createParams[5] = <<"dateTo", "2026-11-03T14:00:07.500000Z">>

\* attempts whose outcome was neither succeeded nor failed: running, an
\* unrecognized status, or a query error
NonTerminalAttempts ==
    {k \in 1..Len(log) : StatusAt(k) \notin {"succeeded", "failed"}}

\* C13: when the poller returns or raises, it has performed one delay per
\* non-terminal attempt and none for a terminal one: the number of delays
\* equals the number of attempts that saw neither succeeded nor failed.
C13_OneDelayPerNonTerminal ==
    outcome["poll"] \in {"returned", "raised"} =>
        delays = Cardinality(NonTerminalAttempts)

\* C13, narrowed to polls in which no status query raised.  (Violated as
\* well: a `failed` answer before the last attempt is followed by a delay.)
C13_NoQueryErrorOneDelayPerNonTerminal ==
    (/\ outcome["poll"] \in {"returned", "raised"}
     /\ \A k \in 1..Len(log) : ~RaisedAt(k)) =>
        delays = Cardinality(NonTerminalAttempts)

\* C14: whatever the remote answers, a run issues at most one creation call,
\* at most max_attempts status queries, one per consumed attempt, and at
\* most one download request.
C14_CallCountsBounded ==
    /\ creates <= 1
    /\ downloads <= 1
    /\ queries <= Budget
    /\ (pc = "poll" => queries = attempt - 1)
    /\ (outcome["poll"] # "pending" /\ Budget >= 1 => queries = attempt)

C14_Witness ==
    /\ creates = 1
    /\ max_attempts = 3
    /\ queries = 3
    /\ downloads = 1
    /\ pc = "exited"

\* the program is sequential and every network call returns or raises (the
\* requests carry timeouts, lines 41, 61, 105), so a step that can be taken
\* is eventually taken
FairSpec == Spec /\ WF_vars(Next)

\* C15: poll_for_completion always terminates: once entered it eventually
\* returns or raises, and it never makes more than max_attempts status
\* queries or more than max_attempts delays.
C15_PollTerminates ==
    /\ [](queries <= Budget /\ delays <= Budget)
    /\ (pc = "poll") ~> (outcome["poll"] \in {"returned", "raised"})

C15_Witness ==
    /\ max_attempts = 3
    /\ queries = 3
    /\ delays = 3
    /\ outcome["poll"] = "raised"
    /\ error = ErrPollTimeout

\* C16: a run that exits with 1 has emitted an error report before exiting,
\* and a run that exits with 0 has emitted no error report at all.
C16_ErrorReportIffExitOne ==
    pc = "exited" =>
        /\ (exitCode = 1 => reported)
        /\ (exitCode = 0 =>
                /\ ~reported
                /\ attemptErrors = 0
                /\ requestErrors = 0)

\* C16 as amended: the report of run's handler (line 148) is emitted exactly
\* on the runs that exit with 1, at the exit and never earlier; the error
\* lines of the steps are left out of the statement.
C16_RunReportIffExitOne ==
    /\ (reported <=> exitCode = 1)
    /\ (exitCode = 1 => pc = "exited")
    /\ (pc = "exited" => exitCode \in {0, 1})

C16_Witness ==
    /\ pc = "exited"
    /\ exitCode = 1
    /\ reported
    /\ error = ErrDownloadStream
    /\ attemptErrors = 1

\* C17: when download_file fails with a request or transport error, no file
\* with the destination name is on disk afterwards, whatever was on disk
\* before: a file of that name from before the call is removed too, even
\* when the failure came before the destination was opened.
C17_RequestErrorRemovesAnyFile ==
    error \in {ErrDownloadRequest, ErrDownloadStream} =>
        /\ outcome["download"] = "raised"
        /\ FileName(export_id) \notin DOMAIN disk
        /\ \A f \in DOMAIN disk : f \in DOMAIN disk0 /\ disk[f] = disk0[f]

C17_Witness ==
    /\ error = ErrDownloadRequest
    /\ requestedUrl \in Urls
    /\ FileName(export_id) \in DOMAIN disk0
    /\ FileName(export_id) \notin DOMAIN disk
    /\ written = 0
    /\ pc = "exited"

\* C18: a succeeded answer without a url field still ends the polling with
\* success: no further query, the absent URL is returned and handed to the
\* download step, whose request fails; the run ends with exit status 1 and
\* without an output file, never with exit status 0.
C18_SucceededWithoutUrl ==
    \A k \in 1..Len(log) :
        (StatusAt(k) = "succeeded" /\ "url" \notin DOMAIN log[k]) =>
            /\ queries = k
            /\ outcome["poll"] = "returned"
            /\ download_url = None
            /\ pc \in {"download", "exited"}
            /\ exitCode # 0
            /\ (pc = "exited" =>
                    /\ downloads = 1
                    /\ requestedUrl = None
                    /\ outcome["download"] = "raised"
                    /\ error = ErrDownloadRequest
                    /\ exitCode = 1
                    /\ FileName(export_id) \notin DOMAIN disk)

C18_Witness ==
    /\ queries = 2
    /\ StatusAt(1) = "running"
    /\ StatusAt(2) = "succeeded"
    /\ "url" \notin DOMAIN log[2]
    /\ downloads = 1
    /\ exitCode = 1
    /\ FileName(export_id) \notin DOMAIN disk

\* C19: with max_attempts <= 0 the poller issues no status query, performs
\* no delay and never returns; when it raises, it raises the poll-timeout
\* error, and nothing but that raise can follow the call.
C19_EmptyBudgetTimesOut ==
    max_attempts <= 0 =>
        /\ queries = 0
        /\ delays = 0
        /\ outcome["poll"] # "returned"
        /\ downloads = 0
        /\ (outcome["poll"] = "raised" => error = ErrPollTimeout /\ exitCode = 1)
        /\ (pc = "poll" => ENABLED PollEmptyBudget)
        /\ (pc = "exited" /\ outcome["create"] = "returned" =>
                outcome["poll"] = "raised")

C19_Witness ==
    /\ max_attempts = -1
    /\ outcome["create"] = "returned"
    /\ outcome["poll"] = "raised"
    /\ error = ErrPollTimeout
    /\ queries = 0
    /\ delays = 0

TypeOK ==
    /\ pc \in {"start", "poll", "download", "open", "stream", "exited"}
    /\ max_attempts \in Int
    /\ attempt \in 1..(MaxBudget + 1)
    /\ delays \in Nat
    /\ creates \in 0..1
    /\ downloads \in 0..1
    /\ exitCode \in {-1, 0, 1}
    /\ reported \in BOOLEAN
    /\ DOMAIN disk \subseteq FileNames
====
